---- MODULE Spec2Model ----
(***************************************************************************)
(* cargo-debug: model of src/src/main.rs.                                  *)
(*                                                                         *)
(* main() is one sequential pipeline that talks to three outside parties:  *)
(* the cargo child process (a stream of JSON messages, then an exit        *)
(* status), the debugger child process, and the terminal's Ctrl-C signal   *)
(* (handled on the ctrlc crate's thread once the handler is installed).    *)
(* pc is the position of main(); every step of an outside party is an      *)
(* input drawn with \E.                                                    *)
(*                                                                         *)
(* Not modelled, as no step below reads them: the echo of the arguments at *)
(* line 56, the logger set up at line 85 and the trace!/info!/warn!        *)
(* records, and the cargo command line built at lines 103-119 (cargo_opts  *)
(* is only handed to it). Arguments and paths are valid UTF-8, so the      *)
(* to_str().unwrap() calls succeed and leave the text as it is.            *)
(*                                                                         *)
(* Strings of the program are tuples of one-character strings, so that     *)
(* ends_with, starts_with, file_name and join are computed on characters.  *)
(* An Option<T> is a tuple of length at most one: <<>> is None, <<v>> is   *)
(* Some(v).                                                                *)
(***************************************************************************)
EXTENDS Integers, Sequences, FiniteSets, TLC

VARIABLES
    pc,            \* position of main()
    args,          \* env::args_os(), line 54
    o,             \* Options::from_iter(&config_opts), line 82
    config_opts,   \* line 60
    cargo_opts,    \* line 72
    child_opts,    \* line 76
    package,       \* line 96
    artifacts,     \* line 125
    cargo_status,  \* Option: the ExitStatus handle.wait() returned, line 136
    outputs,       \* line 140
    bin,           \* Option: line 150
    debug_args,    \* line 173
    stdout,        \* lines printed by println! at lines 219-220
    errlog,        \* records handed to error! (lines 159, 161, 211)
    exit_code,     \* Option: the exit code of this process once it has ended
    outcome,       \* how the process ended ("" while it runs)
    handler,       \* TRUE once ctrlc::set_handler has installed the closure
    then,          \* *b, the timestamp behind the Arc<Mutex<..>>, line 224
    now,           \* SystemTime::now(), in milliseconds
    intLog,        \* history: one record per Ctrl-C the handler has handled
    debugger_proc  \* "none", "running", "exited", "failed"; with its status

vars == <<pc, args, o, config_opts, cargo_opts, child_opts, package, artifacts,
          cargo_status, outputs, bin, debug_args, stdout, errlog, exit_code,
          outcome, handler, then, now, intLog, debugger_proc>>

----------------------------------------------------------------------------
\* Bounds of the model.

\* longest argument list enumerated for the argument partitioner
MaxArgs == 4
\* most artifact messages cargo emits in one run
MaxEvents == 3
\* most Ctrl-C signals delivered in one run
MaxInterrupts == 2
\* the clock stops advancing here (milliseconds after the handler's creation)
MaxTime == 2600
\* longest child-argument list enumerated for the debug command builder
MaxChildArgs == 2

----------------------------------------------------------------------------
\* String literals of the source.

SEP == <<"-", "-">>
MARKER == <<"d", "e", "b", "u", "g">>
GDB == <<"g", "d", "b">>
LLDB == <<"l", "l", "d", "b">>
ARGS_FLAG == <<"-", "-", "a", "r", "g", "s">>
COMMAND_FLAG == <<"-", "-", "c", "o", "m", "m", "a", "n", "d">>
FILE_FLAG == <<"-", "-", "f", "i", "l", "e">>
SOURCE_FLAG == <<"-", "-", "s", "o", "u", "r", "c", "e">>
SPACE == <<" ">>
DEBUG_COMMAND_HEADER ==
    <<"D", "e", "b", "u", "g", " ", "c", "o", "m", "m", "a", "n", "d", ":", " ">>
ONE_SECOND == 1000
PANIC_CODE == 101
USAGE_CODE == 1

None == <<>>
Some(v) == <<v>>
IsSome(x) == Len(x) = 1

----------------------------------------------------------------------------
\* Pure functions.

\* str::ends_with
EndsWith(s, suffix) ==
    /\ Len(suffix) <= Len(s)
    /\ SubSeq(s, Len(s) - Len(suffix) + 1, Len(s)) = suffix

\* str::starts_with
StartsWith(s, prefix) ==
    /\ Len(prefix) <= Len(s)
    /\ SubSeq(s, 1, Len(prefix)) = prefix

\* Path::file_name: the final component of the path
RECURSIVE FileName(_)
FileName(p) ==
    IF \E i \in DOMAIN p : p[i] = "/"
    THEN FileName(SubSeq(p, (CHOOSE i \in DOMAIN p : p[i] = "/") + 1, Len(p)))
    ELSE p

\* [String]::join
RECURSIVE Join(_, _)
Join(v, sep) ==
    IF v = <<>> THEN <<>>
    ELSE IF Len(v) = 1 THEN v[1]
    ELSE v[1] \o sep \o Join(Tail(v), sep)

\* slice::splitn(n, |v| v == "--"): at most n pieces, the last one the rest
RECURSIVE Splitn(_, _)
Splitn(s, n) ==
    IF n = 0 THEN <<>>
    ELSE IF n = 1 \/ ~(\E i \in DOMAIN s : s[i] = SEP) THEN <<s>>
    ELSE LET i == CHOOSE k \in DOMAIN s :
                     /\ s[k] = SEP
                     /\ \A j \in 1..(k - 1) : s[j] # SEP
         IN  <<SubSeq(s, 1, i - 1)>> \o Splitn(SubSeq(s, i + 1, Len(s)), n - 1)

----------------------------------------------------------------------------
\* Inputs: what the environment hands to one run.

PROG == <<"p">>
X == <<"x">>
Y == <<"y">>
PDB == <<"p", "d", "b">>
RUST_GDB == <<"r", "-", "g", "d", "b">>
RUST_LLDB == <<"r", "-", "l", "l", "d", "b">>
GDBX == <<"g", "d", "b", "x">>
PKG == <<"a", "p", "p">>
DEP == <<"d", "e", "p">>
SCRIPT == <<"s", ".", "t", "x", "t">>
TMP_A == <<"/", "t", "m", "p", "/", "a">>
PATH_AB == <<"a", "/", "a", "b">>
PATH_B == <<"a", "/", "b">>
PATH_AC == <<"a", "/", "a", "c">>

SeqsUpTo(S, n) == UNION {[1..k -> S] : k \in 0..n}

\* Command lines of the pipeline runs: child_opts absent, present and empty,
\* present and not empty.
ArgvInputs == {<<PROG, MARKER>>, <<PROG, SEP, SEP>>, <<PROG, SEP, X, SEP, X>>}

\* Every command line of at most MaxArgs tokens (the partitioner's inputs).
ArgvAll == SeqsUpTo({PROG, SEP, MARKER, X}, MaxArgs) \ {<<>>}

\* What structopt parses out of config_opts.
OptionInputs ==
    [debugger : {GDB, LLDB, PDB},
     command_file : {None, Some(SCRIPT)},
     filter : {None, Some(<<"a">>), Some(X)},
     no_run : BOOLEAN]

\* What structopt parses, for the debug command builder's runs.
BuilderOptionInputs ==
    [debugger : {GDB, RUST_GDB, LLDB, RUST_LLDB, PDB, GDBX},
     command_file : {None, Some(SCRIPT)},
     filter : {None},
     no_run : {FALSE}]

\* One line of cargo's --message-format=json output, decoded.
Artifact(target, executable) ==
    [kind |-> "artifact", target |-> target, executable |-> executable]

ArtifactMessages ==
    {Artifact(PKG, None), Artifact(PKG, Some(PATH_AB)),
     Artifact(PKG, Some(PATH_B)), Artifact(DEP, Some(PATH_AC))}

\* Outcomes of handle.wait(): Ok(status) with an exit code, or Err.
WaitResults ==
    {[ok |-> TRUE, code |-> 0], [ok |-> TRUE, code |-> 101],
     [ok |-> FALSE, code |-> 0]}

\* Exit codes of the debugger process.
DebuggerCodes == {0, 1, 2}

\* How far the clock may advance between two steps (milliseconds).
TickSteps == {200, 1500}

----------------------------------------------------------------------------
\* Initial states.

Fresh ==
    /\ pc = "start"
    /\ config_opts = <<>>
    /\ cargo_opts = None
    /\ child_opts = None
    /\ package = None
    /\ artifacts = <<>>
    /\ cargo_status = None
    /\ outputs = <<>>
    /\ bin = None
    /\ debug_args = <<>>
    /\ stdout = <<>>
    /\ errlog = <<>>
    /\ exit_code = None
    /\ outcome = ""
    /\ handler = FALSE
    /\ then = 0
    /\ now = 0
    /\ intLog = <<>>
    /\ debugger_proc = [state |-> "none", status |-> None]

Init ==
    /\ args \in ArgvInputs
    /\ o \in OptionInputs
    /\ Fresh

----------------------------------------------------------------------------
\* Ways main() ends.

\* std::process::exit(code), or main returning (code 0)
Exit(code, why) ==
    /\ pc' = "done"
    /\ exit_code' = Some(code)
    /\ outcome' = why

\* a failed expect()/unwrap(): the panic message, exit code 101
Panic(message) == Exit(PANIC_CODE, message)

----------------------------------------------------------------------------
\* main(), lines 53-82: split the command line and parse the options.

\* StripMarker with the test of the token left out: index 1 is always dropped
StripMarkerAlways(c) ==
    IF Len(c) >= 2
    THEN <<c[1]>> \o SubSeq(c, 3, Len(c))
    ELSE c

\* lines 66-70: drop the token at index 1 when it is "debug"
StripMarker(c) ==
    IF Len(c) >= 2 /\ c[2] = MARKER
    THEN <<c[1]>> \o SubSeq(c, 3, Len(c))
    ELSE c

ParseArgs ==
    /\ pc = "start"
    /\ LET s == Splitn(args, 3)
       IN  /\ config_opts' = StripMarker(s[1])
           /\ cargo_opts' = IF Len(s) >= 2 THEN Some(s[2]) ELSE None
           /\ child_opts' = IF Len(s) >= 3 THEN Some(s[3]) ELSE None
    /\ \E parsed \in BOOLEAN :
          IF parsed
          THEN pc' = "manifest" /\ UNCHANGED <<exit_code, outcome>>
          ELSE Exit(USAGE_CODE, "usage error")
    /\ UNCHANGED <<args, o, package, artifacts, cargo_status, outputs, bin,
                   debug_args, stdout, errlog, handler, then, now, intLog,
                   debugger_proc>>

\* lines 94-96: read the package name from Cargo.toml
LoadManifest ==
    /\ pc = "manifest"
    /\ \E r \in {"ok", "Failed to read Cargo.toml", "No package available"} :
          IF r = "ok"
          THEN /\ package' = Some(PKG)
               /\ pc' = "spawn_cargo"
               /\ UNCHANGED <<exit_code, outcome>>
          ELSE Panic(r) /\ UNCHANGED package
    /\ UNCHANGED <<args, o, config_opts, cargo_opts, child_opts, artifacts,
                   cargo_status, outputs, bin, debug_args, stdout, errlog,
                   handler, then, now, intLog, debugger_proc>>

\* lines 103-122: spawn cargo
SpawnCargo ==
    /\ pc = "spawn_cargo"
    /\ \E started \in BOOLEAN :
          IF started
          THEN pc' = "messages" /\ UNCHANGED <<exit_code, outcome>>
          ELSE Panic("error starting cargo command")
    /\ UNCHANGED <<args, o, config_opts, cargo_opts, child_opts, package,
                   artifacts, cargo_status, outputs, bin, debug_args, stdout,
                   errlog, handler, then, now, intLog, debugger_proc>>

\* lines 126-133: one message of cargo's stdout
CargoMessage ==
    /\ pc = "messages"
    /\ \/ \E m \in ArtifactMessages :
             /\ Len(artifacts) < MaxEvents
             /\ artifacts' = Append(artifacts, m)
             /\ UNCHANGED <<pc, exit_code, outcome>>
       \/ UNCHANGED <<artifacts, pc, exit_code, outcome>>
       \/ Panic("Invalid cargo JSON message") /\ UNCHANGED artifacts
    /\ UNCHANGED <<args, o, config_opts, cargo_opts, child_opts, package,
                   cargo_status, outputs, bin, debug_args, stdout, errlog,
                   handler, then, now, intLog, debugger_proc>>

\* line 136: the stream has ended; wait for cargo to exit
CargoWait ==
    /\ pc = "messages"
    /\ \E w \in WaitResults :
          IF w.ok
          THEN /\ cargo_status' = Some(w.code)
               /\ pc' = "select"
               /\ UNCHANGED <<exit_code, outcome>>
          ELSE /\ Panic("cargo command failed, try running the command directly")
               /\ UNCHANGED cargo_status
    /\ UNCHANGED <<args, o, config_opts, cargo_opts, child_opts, package,
                   artifacts, outputs, bin, debug_args, stdout, errlog,
                   handler, then, now, intLog, debugger_proc>>

----------------------------------------------------------------------------
\* main(), lines 139-169: find the outputs and select one.

\* lines 140-146: the executable path of every artifact that has one
RECURSIVE Outputs(_)
Outputs(arts) ==
    IF arts = <<>> THEN <<>>
    ELSE (IF IsSome(Head(arts).executable)
          THEN <<Head(arts).executable[1]>>
          ELSE <<>>) \o Outputs(Tail(arts))

\* lines 152-155: Iterator::find, the first output whose file name starts
\* with the filter
RECURSIVE FindOutput(_, _)
FindOutput(outs, f) ==
    IF outs = <<>> THEN None
    ELSE IF StartsWith(FileName(Head(outs)), f) THEN Some(Head(outs))
    ELSE FindOutput(Tail(outs), f)

\* line 160: the file name of every output
FileNames(outs) == [i \in DOMAIN outs |-> FileName(outs[i])]

MULTIPLE_OUTPUTS ==
    "found multiple output arguments, pass --filter=X argument to select a specific output"

SelectOutput ==
    /\ pc = "select"
    /\ LET outs == Outputs(artifacts)
       IN  /\ outputs' = outs
           /\ IF IsSome(o.filter)
              THEN LET found == FindOutput(outs, o.filter[1])
                   IN  /\ IF IsSome(found)
                          THEN /\ bin' = found
                               /\ pc' = "debugger"
                               /\ UNCHANGED <<exit_code, outcome>>
                          ELSE Panic("no fi") /\ UNCHANGED bin
                       /\ UNCHANGED errlog
              ELSE IF Len(outs) > 1
              THEN /\ errlog' = errlog \o
                          <<[text |-> MULTIPLE_OUTPUTS, values |-> <<>>],
                            [text |-> "{:#?}", values |-> FileNames(outs)]>>
                   /\ Exit(0, "multiple outputs")
                   /\ UNCHANGED bin
              ELSE /\ IF Len(outs) >= 1
                      THEN /\ bin' = Some(outs[1])
                           /\ pc' = "debugger"
                           /\ UNCHANGED <<exit_code, outcome>>
                      ELSE /\ Panic("no viable output artifacts found")
                           /\ UNCHANGED bin
                   /\ UNCHANGED errlog
    /\ UNCHANGED <<args, o, config_opts, cargo_opts, child_opts, package,
                   artifacts, cargo_status, debug_args, stdout, handler, then,
                   now, intLog, debugger_proc>>

----------------------------------------------------------------------------
\* main(), lines 171-215: the debugger's argument vector.

\* GdbArgs with "--args" pushed only for a non-empty list of child arguments
GdbArgsWhenNonEmpty(b, f, a) ==
    LET v1 == IF IsSome(a) /\ a[1] # <<>> THEN Append(<<>>, ARGS_FLAG) ELSE <<>>
        v2 == IF IsSome(f) THEN Append(Append(v1, COMMAND_FLAG), f[1]) ELSE v1
        v3 == Append(v2, b)
    IN  IF IsSome(a) THEN v3 \o a[1] ELSE v3

\* lines 175-193
GdbArgs(b, f, a) ==
    LET v1 == IF IsSome(a) THEN Append(<<>>, ARGS_FLAG) ELSE <<>>
        v2 == IF IsSome(f) THEN Append(Append(v1, COMMAND_FLAG), f[1]) ELSE v1
        v3 == Append(v2, b)
    IN  IF IsSome(a) THEN v3 \o a[1] ELSE v3

\* lines 194-209
LldbArgs(b, f, a) ==
    LET v1 == Append(Append(<<>>, FILE_FLAG), b)
        v2 == IF IsSome(f) THEN Append(Append(v1, SOURCE_FLAG), f[1]) ELSE v1
    IN  IF IsSome(a) THEN Append(v2, SEP) \o a[1] ELSE v2

BuildDebugArgs ==
    /\ pc = "debugger"
    /\ IF EndsWith(o.debugger, GDB)
       THEN /\ debug_args' = GdbArgs(bin[1], o.command_file, child_opts)
            /\ pc' = "launch"
            /\ UNCHANGED <<errlog, exit_code, outcome>>
       ELSE IF EndsWith(o.debugger, LLDB)
       THEN /\ debug_args' = LldbArgs(bin[1], o.command_file, child_opts)
            /\ pc' = "launch"
            /\ UNCHANGED <<errlog, exit_code, outcome>>
       ELSE /\ errlog' = Append(errlog,
                   [text |-> "unsupported or unrecognised debugger {}",
                    values |-> <<o.debugger>>])
            /\ Exit(0, "unsupported debugger")
            /\ UNCHANGED debug_args
    /\ UNCHANGED <<args, o, config_opts, cargo_opts, child_opts, package,
                   artifacts, cargo_status, outputs, bin, stdout, handler,
                   then, now, intLog, debugger_proc>>

----------------------------------------------------------------------------
\* main(), lines 217-248: print the command, or run the debugger.

\* line 220: "{} {}" of the debugger and the joined arguments
CommandLine(debugger, dargs) == debugger \o SPACE \o Join(dargs, SPACE)

\* Launch with the exit after the print left out: the run goes on to install
\* the handler
LaunchWithoutExit ==
    /\ pc = "launch"
    /\ stdout' = IF o.no_run
                 THEN stdout \o
                      <<DEBUG_COMMAND_HEADER, CommandLine(o.debugger, debug_args)>>
                 ELSE stdout
    /\ then' = now
    /\ artifacts' = <<>>
    /\ outputs' = <<>>
    /\ bin' = None
    /\ handler' = TRUE
    /\ pc' = "run"
    /\ UNCHANGED <<args, o, config_opts, cargo_opts, child_opts, package,
                   cargo_status, debug_args, errlog, now, intLog,
                   debugger_proc, exit_code, outcome>>

\* lines 217-237: with no_run, print and exit(0); otherwise create the
\* timestamp and install the Ctrl-C handler. artifacts, outputs and bin are
\* not read after line 197 and are forgotten here.
Launch ==
    /\ pc = "launch"
    /\ IF o.no_run
       THEN /\ stdout' = stdout \o
                   <<DEBUG_COMMAND_HEADER, CommandLine(o.debugger, debug_args)>>
            /\ Exit(0, "no-run")
            /\ UNCHANGED <<handler, then, artifacts, outputs, bin>>
       ELSE /\ then' = now
            /\ artifacts' = <<>>
            /\ outputs' = <<>>
            /\ bin' = None
            /\ UNCHANGED stdout
            /\ \E installed \in BOOLEAN :
                  IF installed
                  THEN /\ handler' = TRUE
                       /\ pc' = "run"
                       /\ UNCHANGED <<exit_code, outcome>>
                  ELSE /\ Panic("Error setting Ctrl-C handler")
                       /\ UNCHANGED handler
    /\ UNCHANGED <<args, o, config_opts, cargo_opts, child_opts, package,
                   cargo_status, debug_args, errlog, now, intLog,
                   debugger_proc>>

\* line 245, first half: Command::status() starts the debugger
RunDebugger ==
    /\ pc = "run"
    /\ \E started \in BOOLEAN :
          IF started
          THEN /\ debugger_proc' = [state |-> "running", status |-> None]
               /\ pc' = "debugging"
               /\ UNCHANGED <<exit_code, outcome>>
          ELSE /\ debugger_proc' = [state |-> "failed", status |-> None]
               /\ Panic("error running debug command")
    /\ UNCHANGED <<args, o, config_opts, cargo_opts, child_opts, package,
                   artifacts, cargo_status, outputs, bin, debug_args, stdout,
                   errlog, handler, then, now, intLog>>

\* lines 245-248: the debugger exits with code c; its status is dropped and
\* main returns
DebuggerExit ==
    /\ pc = "debugging"
    /\ \E c \in DebuggerCodes :
          debugger_proc' = [state |-> "exited", status |-> Some(c)]
    /\ Exit(0, "returned")
    /\ UNCHANGED <<args, o, config_opts, cargo_opts, child_opts, package,
                   artifacts, cargo_status, outputs, bin, debug_args, stdout,
                   errlog, handler, then, now, intLog>>

\* Interrupt with the update of the timestamp left out
InterruptWithoutUpdate ==
    /\ handler
    /\ pc \in {"run", "debugging"}
    /\ Len(intLog) < MaxInterrupts
    /\ IF now - then > ONE_SECOND
       THEN Exit(0, "interrupted")
       ELSE UNCHANGED <<pc, exit_code, outcome>>
    /\ intLog' = Append(intLog, [at |-> now, exited |-> now - then > ONE_SECOND])
    /\ UNCHANGED <<args, o, config_opts, cargo_opts, child_opts, package,
                   artifacts, cargo_status, outputs, bin, debug_args, stdout,
                   errlog, handler, then, now, debugger_proc>>

\* lines 228-236: the Ctrl-C handler, run once per signal while the process
\* lives
Interrupt ==
    /\ handler
    /\ pc \in {"run", "debugging"}
    /\ Len(intLog) < MaxInterrupts
    /\ IF now - then > ONE_SECOND
       THEN /\ Exit(0, "interrupted")
            /\ UNCHANGED then
       ELSE /\ then' = now
            /\ UNCHANGED <<pc, exit_code, outcome>>
    /\ intLog' = Append(intLog, [at |-> now, exited |-> now - then > ONE_SECOND])
    /\ UNCHANGED <<args, o, config_opts, cargo_opts, child_opts, package,
                   artifacts, cargo_status, outputs, bin, debug_args, stdout,
                   errlog, handler, now, debugger_proc>>

\* time passes while the handler is installed and the process lives
Tick ==
    /\ handler
    /\ pc \in {"run", "debugging"}
    /\ \E d \in TickSteps :
          /\ now + d <= MaxTime
          /\ now' = now + d
    /\ UNCHANGED <<pc, args, o, config_opts, cargo_opts, child_opts, package,
                   artifacts, cargo_status, outputs, bin, debug_args, stdout,
                   errlog, exit_code, outcome, handler, then, intLog,
                   debugger_proc>>

----------------------------------------------------------------------------
\* Specifications.

Next ==
    \/ ParseArgs
    \/ LoadManifest
    \/ SpawnCargo
    \/ CargoMessage
    \/ CargoWait
    \/ SelectOutput
    \/ BuildDebugArgs
    \/ Launch
    \/ RunDebugger
    \/ DebuggerExit
    \/ Interrupt
    \/ Tick

\* one run of the program
Spec == Init /\ [][Next]_vars

\* the argument partitioner on every command line of at most MaxArgs tokens
InitArgs ==
    /\ args \in ArgvAll
    /\ o \in {[debugger |-> GDB, command_file |-> None, filter |-> None,
               no_run |-> FALSE]}
    /\ Fresh

NextArgs == ParseArgs

SpecArgs == InitArgs /\ [][NextArgs]_vars

\* the debug command builder on every binary, command file and child
\* arguments: main() at line 171, a binary selected
InitBuilder ==
    /\ args = <<PROG>>
    /\ o \in BuilderOptionInputs
    /\ config_opts = <<PROG>>
    /\ cargo_opts = None
    /\ child_opts \in {None} \cup {Some(a) : a \in SeqsUpTo({X, Y}, MaxChildArgs)}
    /\ package = Some(PKG)
    /\ \E b \in {TMP_A, PATH_AB, PATH_B} :
          /\ artifacts = <<Artifact(PKG, Some(b))>>
          /\ outputs = <<b>>
          /\ bin = Some(b)
    /\ cargo_status = Some(0)
    /\ pc = "debugger"
    /\ debug_args = <<>>
    /\ stdout = <<>>
    /\ errlog = <<>>
    /\ exit_code = None
    /\ outcome = ""
    /\ handler = FALSE
    /\ then = 0
    /\ now = 0
    /\ intLog = <<>>
    /\ debugger_proc = [state |-> "none", status |-> None]

NextBuilder == BuildDebugArgs

SpecBuilder == InitBuilder /\ [][NextBuilder]_vars

----------------------------------------------------------------------------
\* Vocabulary of the properties.

\* the debugger process was spawned
Spawned == debugger_proc.state \in {"running", "exited"}

\* the debug command was printed
CommandPrinted == \E i \in DOMAIN stdout : stdout[i] = DEBUG_COMMAND_HEADER

\* this process has ended
Ended == pc = "done"

\* SelectOutput has acted and its inputs are still held
SelectionDone ==
    \/ pc \in {"debugger", "launch"}
    \/ /\ Ended
       /\ outcome \in {"no fi", "multiple outputs", "unsupported debugger",
                       "no viable output artifacts found", "no-run"}

\* The candidates of the specification's ArtifactSelector: the executable
\* paths, in arrival order, of the artifacts built for the package.
RECURSIVE Candidates(_, _)
Candidates(arts, pkg) ==
    IF arts = <<>> THEN <<>>
    ELSE (IF Head(arts).target = pkg /\ IsSome(Head(arts).executable)
          THEN <<Head(arts).executable[1]>>
          ELSE <<>>) \o Candidates(Tail(arts), pkg)

\* v holds x at an earlier index than y
InOrder(v, x, y) ==
    \E i, j \in DOMAIN v : i < j /\ v[i] = x /\ v[j] = y

\* a line cut at its spaces
RECURSIVE SplitOnSpace(_)
SplitOnSpace(line) ==
    IF \E i \in DOMAIN line : line[i] = " "
    THEN LET i == CHOOSE k \in DOMAIN line :
                     line[k] = " " /\ \A j \in 1..(k - 1) : line[j] # " "
         IN  <<SubSeq(line, 1, i - 1)>> \o
                 SplitOnSpace(SubSeq(line, i + 1, Len(line)))
    ELSE <<line>>

----------------------------------------------------------------------------
\* C1: whenever cargo has exited with a non-zero status, the debugger is not
\* spawned, no debug command is printed, and the run ends with a non-zero
\* exit code.
C1_FailedBuildIsFatal ==
    (IsSome(cargo_status) /\ cargo_status[1] # 0) =>
        /\ ~Spawned
        /\ ~CommandPrinted
        /\ Ended => exit_code[1] # 0

\* C2: when the debugger was started and has exited with code c, this
\* process exits with code c; when the debugger could not be started, this
\* process exits with a non-zero code.
C2_DebuggerExitCodePropagated ==
    /\ (Ended /\ debugger_proc.state = "exited" /\ outcome = "returned") =>
           exit_code = debugger_proc.status
    /\ debugger_proc.state = "failed" => (Ended /\ exit_code[1] # 0)

\* C3: with a debugger name that ends with neither "gdb" nor "lldb", no
\* debugger is spawned, no debug command is printed, and the run that gets
\* as far as the debugger's name ends with a non-zero exit code.
C3_UnsupportedDebuggerIsFatal ==
    (~EndsWith(o.debugger, GDB) /\ ~EndsWith(o.debugger, LLDB)) =>
        /\ ~Spawned
        /\ ~CommandPrinted
        /\ pc # "launch"
        /\ (Ended /\ outcome = "unsupported debugger") => exit_code[1] # 0

\* C5: the outputs kept for selection are exactly the executable paths of
\* the artifacts whose target name is the package's, in arrival order; so
\* with no filter and exactly one such artifact, its path is the selected
\* binary.
C5_OutputsAreThePackageExecutables ==
    SelectionDone =>
        LET c == Candidates(artifacts, package[1])
        IN  /\ outputs = c
            /\ (o.filter = None /\ Len(c) = 1) => bin = Some(c[1])

\* C8: with two artifacts of the package that carry different executable
\* file names, (i) without a filter the run ends with exit code 0 after
\* logging both file names in arrival order, spawning no debugger and
\* printing no debug command; (ii) with a filter, the selected binary is the
\* first of the two whose file name starts with the filter.
C8_TwoCandidates ==
    LET c == Candidates(artifacts, PKG)
    IN  (SelectionDone /\ Len(c) = 2 /\ FileName(c[1]) # FileName(c[2])) =>
            /\ o.filter = None =>
                   /\ Ended
                   /\ exit_code = Some(0)
                   /\ \E i \in DOMAIN errlog :
                         InOrder(errlog[i].values, FileName(c[1]), FileName(c[2]))
                   /\ ~Spawned
                   /\ ~CommandPrinted
            /\ IsSome(o.filter) =>
                   LET m1 == StartsWith(FileName(c[1]), o.filter[1])
                       m2 == StartsWith(FileName(c[2]), o.filter[1])
                   IN  /\ m1 => bin = Some(c[1])
                       /\ (~m1 /\ m2) => bin = Some(c[2])

\* C10: when no candidate remains (no filter and no executable of the
\* package, or a filter that no candidate's file name starts with), the run
\* ends with a non-zero exit code, spawns no debugger and prints no debug
\* command; and debug arguments are built only with a binary selected.
C10_EmptySelectionIsFatal ==
    /\ SelectionDone =>
           LET c == Candidates(artifacts, PKG)
               empty == IF IsSome(o.filter)
                        THEN \A i \in DOMAIN c :
                                 ~StartsWith(FileName(c[i]), o.filter[1])
                        ELSE c = <<>>
           IN  empty =>
                   /\ Ended
                   /\ exit_code[1] # 0
                   /\ bin = None
                   /\ ~Spawned
                   /\ ~CommandPrinted
    /\ pc = "launch" => IsSome(bin)

\* The selection rules as the code has them, with every executable path an
\* output whatever its target: no output selected is fatal, and two outputs
\* without a filter end the run with exit code 0 and both names logged.
SelectionOverAllExecutables ==
    SelectionDone =>
        LET outs == Outputs(artifacts)
            matching == {i \in DOMAIN outs :
                            ~IsSome(o.filter)
                            \/ StartsWith(FileName(outs[i]), o.filter[1])}
        IN  /\ matching = {} =>
                   (Ended /\ exit_code[1] # 0 /\ ~Spawned /\ ~CommandPrinted)
            /\ (IsSome(o.filter) /\ matching # {}) =>
                   bin = Some(outs[CHOOSE i \in matching :
                                       \A j \in matching : i <= j])
            /\ (~IsSome(o.filter) /\ Len(outs) = 1) => bin = Some(outs[1])
            /\ (~IsSome(o.filter) /\ Len(outs) > 1) =>
                   /\ Ended /\ exit_code = Some(0)
                   /\ errlog[Len(errlog)].values = FileNames(outs)


----------------------------------------------------------------------------
\* The handler's timestamp is created at time 0 of the model's clock: the
\* clock starts to advance once the handler is installed.

\* the time between the first and the second Ctrl-C
Gap == intLog[2].at - intLog[1].at

C4_WitnessSwallowed ==
    /\ Len(intLog) = 2
    /\ intLog[1].at = ONE_SECOND
    /\ Gap = 200
    /\ ~Ended

\* C6: with at most two "--" in the command line, cargo_opts is present
\* exactly when there is one and child_opts exactly when there are two; the
\* command line is the tokens before the first "--", then "--" and
\* cargo_opts, then "--" and child_opts; and config_opts is the tokens before
\* the first "--" with the token at index 1 removed exactly when it is
\* "debug".
C6_Partition ==
    pc # "start" =>
        LET n == Cardinality({i \in DOMAIN args : args[i] = SEP})
        IN  n <= 2 =>
                /\ IsSome(cargo_opts) <=> n >= 1
                /\ IsSome(child_opts) <=> n = 2
                /\ \E pre \in {SubSeq(args, 1, k) : k \in 0..Len(args)} :
                      /\ \A i \in DOMAIN pre : pre[i] # SEP
                      /\ args = pre
                              \o (IF n >= 1 THEN <<SEP>> \o cargo_opts[1] ELSE <<>>)
                              \o (IF n = 2 THEN <<SEP>> \o child_opts[1] ELSE <<>>)
                      /\ config_opts =
                             IF Len(pre) >= 2 /\ pre[2] = MARKER
                             THEN <<pre[1]>> \o SubSeq(pre, 3, Len(pre))
                             ELSE pre

\* the marker removed, and both groups present and empty
C6_Witness ==
    /\ pc # "start"
    /\ args = <<PROG, MARKER, SEP, SEP>>
    /\ config_opts = <<PROG>>
    /\ cargo_opts = Some(<<>>)
    /\ child_opts = Some(<<>>)

\* C7: for binary b, command file f and child arguments a, a debugger whose
\* name ends with "gdb" gets ["--args" iff a is present] ++ ["--command", f
\* iff f is given] ++ [b] ++ a, and one whose name ends with "lldb" gets
\* ["--file", b] ++ ["--source", f iff f is given] ++ (["--"] ++ a iff a is
\* present); with the three examples of the specification.
C7_DebugArgs ==
    pc = "launch" =>
        LET b == bin[1]
            f == o.command_file
            a == child_opts
            gdb == EndsWith(o.debugger, GDB)
            lldb == ~gdb /\ EndsWith(o.debugger, LLDB)
        IN  /\ gdb \/ lldb
            /\ gdb => debug_args =
                   (IF IsSome(a) THEN <<ARGS_FLAG>> ELSE <<>>)
                   \o (IF IsSome(f) THEN <<COMMAND_FLAG, f[1]>> ELSE <<>>)
                   \o <<b>>
                   \o (IF IsSome(a) THEN a[1] ELSE <<>>)
            /\ lldb => debug_args =
                   <<FILE_FLAG, b>>
                   \o (IF IsSome(f) THEN <<SOURCE_FLAG, f[1]>> ELSE <<>>)
                   \o (IF IsSome(a) THEN <<SEP>> \o a[1] ELSE <<>>)
            /\ (gdb /\ b = TMP_A /\ f = None /\ a = None) =>
                   debug_args = <<TMP_A>>
            /\ (gdb /\ b = TMP_A /\ f = None /\ a = Some(<<>>)) =>
                   debug_args = <<ARGS_FLAG, TMP_A>>
            /\ (lldb /\ b = TMP_A /\ f = Some(SCRIPT) /\ a = Some(<<X>>)) =>
                   debug_args = <<FILE_FLAG, TMP_A, SOURCE_FLAG, SCRIPT, SEP, X>>

\* gdb with child arguments present and empty
C7_Witness ==
    /\ pc = "launch"
    /\ o.debugger = RUST_GDB
    /\ child_opts = Some(<<>>)
    /\ o.command_file = None
    /\ debug_args = <<ARGS_FLAG, TMP_A>>

\* C9: with no_run set the debugger is never spawned and the handler never
\* installed; and the run that has built the debug arguments ends with exit
\* code 0, having printed the header and then one line that is the debugger
\* name and the arguments separated by single spaces.
C9_NoRun ==
    o.no_run =>
        /\ debugger_proc.state = "none"
        /\ ~handler
        /\ pc \notin {"run", "debugging"}
        /\ (Ended /\ debug_args # <<>>) =>
               /\ outcome = "no-run"
               /\ exit_code = Some(0)
               /\ Len(stdout) = 2
               /\ stdout[1] = DEBUG_COMMAND_HEADER
               /\ SplitOnSpace(stdout[2]) = <<o.debugger>> \o debug_args
        /\ CommandPrinted => (Ended /\ outcome = "no-run")

\* a dry run that printed the command of lldb with a command file and a
\* child argument
C9_Witness ==
    /\ o.no_run
    /\ Ended
    /\ outcome = "no-run"
    /\ o.debugger = LLDB
    /\ Len(stdout) = 2
    /\ Len(debug_args) = 6

====
